---- MODULE Spec2Model ----
(***************************************************************************)
(* Model of train_textual_inversion.py: token registration and embedding   *)
(* initialisation, the training loop with its embedding restore, the       *)
(* checkpoint codec (save_weights / load_weights) and the checkpoint       *)
(* writes of a replicated run.                                             *)
(*                                                                         *)
(* Python values are modelled as follows.                                  *)
(*   None / a value      <<>> / <<v>>                                      *)
(*   a tensor            [type, dtype, rank, data]; data is nested         *)
(*                       sequences, rank deep, of scalar values            *)
(*   a dict              [type |-> "dict", items |-> << <<key, obj>> .. >>]*)
(*                       (insertion ordered, as Python dicts are)          *)
(*   a file              [ext, content]                                    *)
(* A scalar is a natural number; float16 keeps only the even ones, so the  *)
(* cast to float16 is lossy and idempotent.                                *)
(***************************************************************************)
EXTENDS Integers, Sequences, FiniteSets, TLC

\* ------------------------------------------------------------ bounds
MaxK == 2
MaxBatches == 2
MaxAccum == 2
MaxSteps == 3
MaxRows == 2
MaxDim == 2
MaxProcs == 2
MaxEpochs == 2

\* ------------------------------------------------------------ values
None == <<>>
Some(v) == <<v>>
IsNone(o) == o = <<>>
Get(o) == o[1]

Scalars == {0, 1}
Dtypes == {"float32", "float16"}

\* x.to(dtype) on one element: float16 drops the low bit
CastVal(v, dtype) == IF dtype = "float16" THEN v - (v % 2) ELSE v

Representable(dtype) == {v \in Scalars : CastVal(v, dtype) = v}

RECURSIVE MapData(_, _, _)
MapData(rank, data, dtype) ==
    IF rank = 0 THEN CastVal(data, dtype)
    ELSE [i \in 1..Len(data) |-> MapData(rank - 1, data[i], dtype)]

RECURSIVE ShapeOf(_, _)
\* emb.size()
ShapeOf(rank, data) ==
    IF rank = 0 THEN <<>>
    ELSE <<Len(data)>> \o ShapeOf(rank - 1, data[1])

RECURSIVE Flatten(_, _)
\* the row-major element buffer of a tensor
Flatten(rank, data) ==
    IF rank = 0 THEN <<data>>
    ELSE IF Len(data) = 0 THEN <<>>
    ELSE Flatten(rank - 1, data[1]) \o Flatten(rank, Tail(data))

RECURSIVE Prod(_)
Prod(shape) == IF shape = <<>> THEN 1 ELSE shape[1] * Prod(Tail(shape))

RECURSIVE Reshape(_, _)
\* the tensor data of a row-major buffer under a shape
Reshape(shape, flat) ==
    IF shape = <<>> THEN flat[1]
    ELSE LET sz == Prod(Tail(shape))
         IN  [i \in 1..shape[1] |->
                 Reshape(Tail(shape), SubSeq(flat, (i - 1) * sz + 1, i * sz))]

Tensor(dtype, rank, data) ==
    [type |-> "Tensor", dtype |-> dtype, rank |-> rank, data |-> data]

\* v.detach().clone().to("cpu").to(save_dtype)
CastTensor(t, dtype) ==
    [t EXCEPT !.dtype = dtype, !.data = MapData(t.rank, t.data, dtype)]

\* emb.unsqueeze(0)
Unsqueeze(t) == [t EXCEPT !.rank = t.rank + 1, !.data = <<t.data>>]

Dict(items) == [type |-> "dict", items |-> items]

\* "key" in data
HasKey(d, k) == \E i \in 1..Len(d.items) : d.items[i][1] = k

\* data[key]: Python keeps one entry per key
Lookup(d, k) == d.items[CHOOSE i \in 1..Len(d.items) : d.items[i][1] = k][2]

\* all rank-2 tensors of shape [k, d] of a dtype
Matrices(k, d, dtype) ==
    {Tensor(dtype, 2, m) : m \in [1..k -> [1..d -> Representable(dtype)]]}

\* ------------------------------------------------------------ the codec
\* os.path.splitext(file)[1] == ".safetensors"
IsSafetensors(ext) == ext = ".safetensors"

\* safetensors.torch.save_file: every tensor is stored as name, dtype, shape
\* and a flat row-major buffer
SafetensorsSave(items) ==
    [format  |-> "safetensors",
     tensors |-> [i \in 1..Len(items) |->
                     [name  |-> items[i][1],
                      dtype |-> items[i][2].dtype,
                      shape |-> ShapeOf(items[i][2].rank, items[i][2].data),
                      flat  |-> Flatten(items[i][2].rank, items[i][2].data)]]]

\* safetensors.torch.load_file on a well-formed archive: a dict of tensors
SafetensorsLoad(content) ==
    Dict([i \in 1..Len(content.tensors) |->
            <<content.tensors[i].name,
              Tensor(content.tensors[i].dtype,
                     Len(content.tensors[i].shape),
                     Reshape(content.tensors[i].shape, content.tensors[i].flat))>>])

\* torch.save / torch.load: the pickled object comes back as it was
TorchSave(obj) == [format |-> "pickle", obj |-> obj]

SaveCastMutant(t, save_dtype) == t

\* lines 504-508: the cast applied to every value of the state dict
SaveCast(t, save_dtype) ==
    IF IsNone(save_dtype) THEN t ELSE CastTensor(t, Get(save_dtype))

\* save_weights(file, updated_embs, save_dtype): the content written to file
SaveWeights(ext, updated_embs, save_dtype) ==
    LET state_dict == << <<"emb_params", SaveCast(updated_embs, save_dtype)>> >>
    IN  IF IsSafetensors(ext) THEN SafetensorsSave(state_dict)
        ELSE TorchSave(Dict(state_dict))

Return(v) == [kind |-> "return", error |-> "", value |-> <<v>>]
Raise(e) == [kind |-> "raise", error |-> e, value |-> <<>>]

\* len(emb.size()) == 1
NeedsUnsqueeze(emb) == emb.rank = 1

\* lines 534-541: first value, type check, rank promotion
FirstTensor(data) ==
    IF data.type \notin {"dict", "OrderedDict"} THEN Raise("AttributeError")
    ELSE IF Len(data.items) = 0 THEN Raise("StopIteration")
    ELSE LET emb == data.items[1][2]
         IN  IF emb.type # "Tensor" THEN Raise("ValueError")
             ELSE IF NeedsUnsqueeze(emb) THEN Return(Unsqueeze(emb))
             ELSE Return(emb)

\* load_weights(file) on the file's extension and content
LoadWeights(ext, content) ==
    IF IsSafetensors(ext)
    THEN IF content.format # "safetensors" THEN Raise("SafetensorError")
         ELSE FirstTensor(SafetensorsLoad(content))
    ELSE IF content.format # "pickle" THEN Raise("UnpicklingError")
         ELSE LET data == content.obj
              IN  IF data.type # "dict" THEN Raise("ValueError")
                  ELSE IF HasKey(data, "string_to_param")
                  THEN LET inner == Lookup(data, "string_to_param")
                       IN  IF inner.type = "ParameterDict"
                           THEN FirstTensor(inner.parameters)
                           ELSE FirstTensor(inner)
                  ELSE FirstTensor(data)

\* ------------------------------------------------------------ state
VARIABLES
    pc,                  \* position of train(): see the actions
    error,               \* the exception that ended the run, "" if none
    tokenizer,           \* the vocabulary: token strings, id = position - 1
    token_embeds,        \* the live embedding matrix: one row per token id
    num_vectors_per_token,
    init_token_ids,      \* None or Some(ids)
    embeddings,          \* None or Some(tensor) returned by load_weights
    token_ids,
    orig_embeds_params,  \* None or Some(matrix): the snapshot
    n_batches,           \* len(train_dataloader)
    gradient_accumulation_steps,
    max_train_steps,
    max_grad_norm,
    save_policy,         \* <<save_every_n_epochs, save_last_n_epochs>>
    num_train_epochs,
    epoch, step, global_step,
    acc_step,            \* accelerator.step
    sync_gradients,      \* accelerator.sync_gradients
    current_epoch, current_step,
    epoch_ckpts,         \* epoch numbers whose checkpoint file exists
    last_ckpt,           \* None or Some(content) of the "last" checkpoint file
    events,              \* calls of the current micro-step, in order
    opt_steps,           \* parameter updates applied so far
    last_writes,         \* writes of the "last" checkpoint so far
    batches_skipped,     \* batches of the epoch left unprocessed by the break
    codec,               \* the codec harness: see SpecCodec
    replicas             \* the replicated run: see SpecMulti

vars == <<pc, error, tokenizer, token_embeds, num_vectors_per_token,
          init_token_ids, embeddings, token_ids, orig_embeds_params,
          n_batches, gradient_accumulation_steps, max_train_steps,
          max_grad_norm, save_policy, num_train_epochs, epoch, step,
          global_step, acc_step, sync_gradients, current_epoch, current_step,
          epoch_ckpts, last_ckpt, events, opt_steps, last_writes,
          batches_skipped, codec, replicas>>

argVars == <<n_batches, gradient_accumulation_steps, max_train_steps,
             max_grad_norm, save_policy, num_train_epochs>>
loopVars == <<epoch, step, global_step, acc_step, sync_gradients,
              current_epoch, current_step>>
outVars == <<epoch_ckpts, last_ckpt, last_writes>>
histVars == <<events, opt_steps, batches_skipped>>
initVars == <<num_vectors_per_token, init_token_ids, embeddings, token_ids>>
otherVars == <<codec, replicas>>

\* ------------------------------------------------------------ tokens
EmbedDim == 1
Rows == [1..EmbedDim -> Scalars]

BaseWords == <<"a", "b">>
DigitStr == <<"1", "2", "3", "4", "5", "6", "7", "8", "9">>

\* line 114: prefix, prefix1, ..., prefix{K-1}
TokenStrings(K) ==
    [i \in 1..K |-> IF i = 1 THEN "tok" ELSE "tok" \o DigitStr[i - 1]]

InVocab(vocab, s) == \E p \in 1..Len(vocab) : vocab[p] = s

RECURSIVE AddTokens(_, _)
\* tokenizer.add_tokens: every string not yet in the vocabulary gets the next id
AddTokens(vocab, strings) ==
    IF strings = <<>> THEN vocab
    ELSE AddTokens(IF InVocab(vocab, Head(strings)) THEN vocab
                   ELSE Append(vocab, Head(strings)),
                   Tail(strings))

\* tokenizer.convert_tokens_to_ids
ConvertTokensToIds(vocab, strings) ==
    [i \in 1..Len(strings) |->
        (CHOOSE p \in 1..Len(vocab) : vocab[p] = strings[i]) - 1]

SeqMin(s) == CHOOSE x \in {s[i] : i \in 1..Len(s)} :
                 \A j \in 1..Len(s) : x <= s[j]

\* lines 122-123: the ids are ordered and end the vocabulary
IdsOrdered(vocab, ids) ==
    /\ SeqMin(ids) = ids[1]
    /\ ids[Len(ids)] = ids[1] + Len(ids) - 1
    /\ Len(vocab) - 1 = ids[Len(ids)]

ResizedRowsMutant(old, n) == Len(old)

\* the row count text_encoder.resize_token_embeddings(n) produces
ResizedRows(old, n) == n

\* resize_token_embeddings: the old rows are kept, the new rows are fresh
Resizings(old, n) ==
    {m \in [1..ResizedRows(old, n) -> Rows] :
        \A r \in 1..ResizedRows(old, n) : r <= Len(old) => m[r] = old[r]}

\* the embedding matrix of the pretrained text encoder
BaseEmbeds(vocab) == [r \in 1..Len(vocab) |-> [d \in 1..EmbedDim |-> (r - 1) % 2]]

BaseVocabs ==
    {BaseWords, Append(BaseWords, "tok"), Append(BaseWords, "tok1"),
     BaseWords \o <<"tok", "tok1">>}

InitIndexMutant(i, M) == (i + 1) % M

\* line 132: i % len(init_token_ids)
InitIndex(i, M) == i % M

RECURSIVE InitFromWord(_, _, _, _)
\* lines 131-132, from the i-th token id on (i counts from 0)
InitFromWord(embeds, ids, init_ids, i) ==
    IF i >= Len(ids) THEN embeds
    ELSE InitFromWord(
            [embeds EXCEPT ![ids[i + 1] + 1] =
                embeds[init_ids[InitIndex(i, Len(init_ids)) + 1] + 1]],
            ids, init_ids, i + 1)

CountMatchesMutant(ids, emb) == TRUE

\* lines 138-140: len(token_ids) == len(embeddings)
CountMatches(ids, emb) == Len(ids) = Len(emb.data)

InitFromWeightsMutant(embeds, ids, emb, i) == embeds

RECURSIVE InitFromWeights(_, _, _, _)
\* lines 142-143: zip(token_ids, embeddings), from the i-th pair on
InitFromWeights(embeds, ids, emb, i) ==
    IF i > Len(ids) \/ i > Len(emb.data) THEN embeds
    ELSE InitFromWeights([embeds EXCEPT ![ids[i] + 1] = emb.data[i]],
                         ids, emb, i + 1)

\* the weight files a run may be given
WeightFiles ==
    {[ext |-> ".pt",
      content |-> TorchSave(Dict(<< <<"emb_params",
          Tensor("float32", 2, [i \in 1..n |-> [d \in 1..EmbedDim |-> i % 2]])>> >>))]
        : n \in 1..MaxK + 1}
    \cup
    {[ext |-> ".safetensors",
      content |-> SaveWeights(".safetensors",
          Tensor("float32", 2, [i \in 1..n |-> [d \in 1..EmbedDim |-> 1]]), None)]
        : n \in 1..MaxK}
    \cup
    {[ext |-> ".pt",
      content |-> TorchSave(Dict(<< <<"string_to_param", Dict(<< <<"*",
          Tensor("float32", 1, [d \in 1..EmbedDim |-> 1])>> >>)>> >>))],
     [ext |-> ".pt", content |-> TorchSave(Dict(<<>>))]}

InitWords == {None, Some(<<>>), Some(<<1>>), Some(<<1, 0>>)}

SavePolicies == {<<None, None>>, <<Some(1), Some(1)>>, <<Some(2), None>>}

\* ------------------------------------------------------------ train()
FailMutant(e) ==
    /\ pc' = "dataset"
    /\ error' = e

\* an assertion fails (or an exception is raised): train() is left at once
Fail(e) ==
    /\ pc' = "error"
    /\ error' = e

\* lines 104-111: the init word is encoded by the base tokenizer
EncodeInitWord ==
    /\ pc = "start"
    /\ \E w \in InitWords :
          /\ IF IsNone(w) THEN TRUE
             ELSE \A i \in 1..Len(Get(w)) : Get(w)[i] < Len(tokenizer)
          /\ init_token_ids' = w
    /\ pc' = "register"
    /\ UNCHANGED <<error, tokenizer, token_embeds, num_vectors_per_token,
                   embeddings, token_ids, orig_embeds_params, argVars,
                   loopVars, outVars, histVars, otherVars>>

\* lines 113-126: add the token strings, check the ids, resize the matrix
RegisterTokens ==
    /\ pc = "register"
    /\ \E K \in 1..MaxK :
          LET token_strings == TokenStrings(K)
              added == AddTokens(tokenizer, token_strings)
              num_added_tokens == Len(added) - Len(tokenizer)
              ids == ConvertTokensToIds(added, token_strings)
          IN  /\ num_vectors_per_token' = K
              /\ tokenizer' = added
              /\ IF num_added_tokens # K
                 THEN /\ Fail("AssertionError: token string exists")
                      /\ UNCHANGED <<token_ids, token_embeds>>
                 ELSE IF ~IdsOrdered(added, ids)
                 THEN /\ Fail("AssertionError: token ids")
                      /\ token_ids' = ids
                      /\ UNCHANGED token_embeds
                 ELSE /\ token_ids' = ids
                      /\ token_embeds' \in Resizings(token_embeds, Len(added))
                      /\ pc' = "init_rows"
                      /\ UNCHANGED error
    /\ UNCHANGED <<init_token_ids, embeddings, orig_embeds_params, argVars,
                   loopVars, outVars, histVars, otherVars>>

\* lines 128-133: copy the initializer rows into the new rows
InitRows ==
    /\ pc = "init_rows"
    /\ IF IsNone(init_token_ids)
       THEN /\ pc' = "load_weights"
            /\ UNCHANGED <<error, token_embeds>>
       ELSE IF Len(Get(init_token_ids)) = 0
       THEN /\ Fail("ZeroDivisionError")
            /\ UNCHANGED token_embeds
       ELSE /\ token_embeds' =
                  InitFromWord(token_embeds, token_ids, Get(init_token_ids), 0)
            /\ pc' = "load_weights"
            /\ UNCHANGED error
    /\ UNCHANGED <<tokenizer, initVars, orig_embeds_params, argVars, loopVars,
                   outVars, histVars, otherVars>>

\* lines 135-145: load the weight file, check its row count, copy its rows
LoadInitWeights ==
    /\ pc = "load_weights"
    /\ \/ /\ pc' = "dataset"
          /\ UNCHANGED <<error, token_embeds, embeddings>>
       \/ \E f \in WeightFiles :
             LET r == LoadWeights(f.ext, f.content)
             IN  IF r.kind = "raise"
                 THEN /\ Fail(r.error)
                      /\ UNCHANGED <<token_embeds, embeddings>>
                 ELSE /\ embeddings' = Some(Get(r.value))
                      /\ IF ~CountMatches(token_ids, Get(r.value))
                         THEN /\ Fail("AssertionError: num_vectors_per_token")
                              /\ UNCHANGED token_embeds
                         ELSE /\ token_embeds' = InitFromWeights(
                                     token_embeds, token_ids, Get(r.value), 1)
                              /\ pc' = "dataset"
                              /\ UNCHANGED error
    /\ UNCHANGED <<tokenizer, num_vectors_per_token, init_token_ids, token_ids,
                   orig_embeds_params, argVars, loopVars, outVars, histVars,
                   otherVars>>

\* math.ceil(a / b)
CeilDiv(a, b) == (a + b - 1) \div b

NumTrainEpochsMutant(M, B, G) == M

\* lines 311-312
NumTrainEpochs(M, B, G) == CeilDiv(M, CeilDiv(B, G))

\* lines 215-277: no data ends the run; otherwise the hyper-parameters are read
PrepareDataset ==
    /\ pc = "dataset"
    /\ \/ /\ n_batches' = 0
          /\ pc' = "returned"
          /\ UNCHANGED <<gradient_accumulation_steps, max_train_steps,
                         max_grad_norm, save_policy>>
       \/ /\ n_batches' \in 1..MaxBatches
          /\ gradient_accumulation_steps' \in 1..MaxAccum
          /\ max_train_steps' \in 0..MaxSteps
          /\ max_grad_norm' \in {0, 1}
          /\ save_policy' \in SavePolicies
          /\ pc' = "snapshot"
    /\ UNCHANGED <<error, tokenizer, token_embeds, initVars, orig_embeds_params,
                   num_train_epochs, loopVars, outVars, histVars, otherVars>>

DetachCloneMutant(weight) ==
    [r \in 1..Len(weight) |->
        IF r - 1 < token_ids[1] THEN weight[r] ELSE [d \in 1..EmbedDim |-> 0]]

\* line 281: weight.data.detach().clone(), a copy of every row
DetachClone(weight) == weight

\* lines 279-281: the mask of the frozen rows and the snapshot
TakeSnapshot ==
    /\ pc = "snapshot"
    /\ orig_embeds_params' = Some(DetachClone(token_embeds))
    /\ pc' = "resume"
    /\ UNCHANGED <<error, tokenizer, token_embeds, initVars, argVars, loopVars,
                   outVars, histVars, otherVars>>

\* the states accelerator.load_state can restore: a state saved by an earlier
\* run of this program on the same model, whose frozen rows are the model's
ResumedStates ==
    {m \in [1..Len(token_embeds) -> Rows] :
        \A r \in 1..Len(token_embeds) :
            r - 1 < token_ids[1] => m[r] = token_embeds[r]}

EpochNumberMutant(e) == e

\* line 340: current_epoch.value = epoch+1, for the loop variable epoch
EpochNumber(e) == e + 1

\* lines 308-340: resume if asked to, count the epochs, enter the first epoch
\* (range(num_train_epochs) is empty when max_train_steps is 0)
BeginTraining ==
    /\ pc = "resume"
    /\ \/ UNCHANGED token_embeds
       \/ token_embeds' \in ResumedStates
    /\ num_train_epochs' =
          NumTrainEpochs(max_train_steps, n_batches, gradient_accumulation_steps)
    /\ global_step' = 0
    /\ epoch' = 0
    /\ step' = 0
    /\ IF num_train_epochs' > 0
       THEN /\ current_epoch' = EpochNumber(0)
            /\ pc' = "forward"
       ELSE /\ pc' = "finalize"
            /\ UNCHANGED current_epoch
    /\ UNCHANGED <<error, tokenizer, initVars, orig_embeds_params, n_batches,
                   gradient_accumulation_steps, max_train_steps, max_grad_norm,
                   save_policy, acc_step, sync_gradients, current_step,
                   outVars, histVars, otherVars>>

\* ------------------------------------------------------------ the loop
setupVars == <<error, tokenizer, initVars, orig_embeds_params, argVars>>

AtEndOfDataloaderMutant == FALSE

\* accelerator.accumulate: gradients are synchronised on the last micro-step of
\* the window and on the last batch of the data loader
AtEndOfDataloader == step = n_batches - 1

\* lines 346-396: next batch, accumulation bookkeeping, forward pass and loss
Forward ==
    /\ pc = "forward"
    /\ current_step' = global_step
    /\ IF AtEndOfDataloader
       THEN /\ acc_step' = 0
            /\ sync_gradients' = TRUE
       ELSE /\ acc_step' = acc_step + 1
            /\ sync_gradients' =
                  ((acc_step + 1) % gradient_accumulation_steps = 0)
    /\ events' = <<"forward">>
    /\ pc' = "backward"
    /\ UNCHANGED <<setupVars, token_embeds, epoch, step, global_step,
                   current_epoch, outVars, opt_steps, batches_skipped,
                   otherVars>>

\* line 397
Backward ==
    /\ pc = "backward"
    /\ events' = Append(events, "backward")
    /\ pc' = "clip"
    /\ UNCHANGED <<setupVars, token_embeds, loopVars, outVars, opt_steps,
                   batches_skipped, otherVars>>

ClipEnabledMutant == max_grad_norm # 0

\* line 398
ClipEnabled == sync_gradients /\ max_grad_norm # 0

\* lines 398-400
ClipGradNorm ==
    /\ pc = "clip"
    /\ events' = IF ClipEnabled THEN Append(events, "clip") ELSE events
    /\ pc' = "optimizer"
    /\ UNCHANGED <<setupVars, token_embeds, loopVars, outVars, opt_steps,
                   batches_skipped, otherVars>>

\* line 402: the wrapped optimizer updates the parameters only when the
\* gradients are synchronised; the update may change any row of the matrix
OptimizerStep ==
    /\ pc = "optimizer"
    /\ IF sync_gradients
       THEN /\ token_embeds' \in [1..Len(token_embeds) -> Rows]
            /\ opt_steps' = opt_steps + 1
       ELSE UNCHANGED <<token_embeds, opt_steps>>
    /\ events' = Append(events, "optimizer")
    /\ pc' = "scheduler"
    /\ UNCHANGED <<setupVars, loopVars, outVars, batches_skipped, otherVars>>

\* line 403
SchedulerStep ==
    /\ pc = "scheduler"
    /\ events' = Append(events, "scheduler")
    /\ pc' = "zero_grad"
    /\ UNCHANGED <<setupVars, token_embeds, loopVars, outVars, opt_steps,
                   batches_skipped, otherVars>>

\* line 404
ZeroGrad ==
    /\ pc = "zero_grad"
    /\ events' = Append(events, "zero_grad")
    /\ pc' = "guard"
    /\ UNCHANGED <<setupVars, token_embeds, loopVars, outVars, opt_steps,
                   batches_skipped, otherVars>>

IndexNoUpdatesMutant(id) == id < token_ids[1] - 1

IndexNoUpdatesInclusive(id) == id <= token_ids[1]

\* line 279: torch.arange(len(tokenizer)) < token_ids[0]
IndexNoUpdates(id) == id < token_ids[1]

\* lines 408-410: weight[index_no_updates] = orig_embeds_params[index_no_updates]
Restored(live, orig) ==
    [r \in 1..Len(live) |-> IF IndexNoUpdates(r - 1) THEN orig[r] ELSE live[r]]

\* lines 406-410: the Embedding Guard
Guard ==
    /\ pc = "guard"
    /\ IF Len(token_embeds) # Len(Get(orig_embeds_params))
       THEN /\ Fail("IndexError")
            /\ UNCHANGED <<token_embeds, events>>
       ELSE /\ token_embeds' = Restored(token_embeds, Get(orig_embeds_params))
            /\ events' = Append(events, "guard")
            /\ pc' = "step_end"
            /\ UNCHANGED error
    /\ UNCHANGED <<tokenizer, initVars, orig_embeds_params, argVars, loopVars,
                   outVars, opt_steps, batches_skipped, otherVars>>

StopReachedMutant(gs) == gs > max_train_steps

\* line 435
StopReached(gs) == gs >= max_train_steps

\* lines 413-436: count the step, stop at max_train_steps, else next batch
StepEnd ==
    /\ pc = "step_end"
    /\ global_step' = IF sync_gradients THEN global_step + 1 ELSE global_step
    /\ IF StopReached(global_step')
       THEN /\ batches_skipped' = n_batches - (step + 1)
            /\ pc' = "epoch_end"
            /\ UNCHANGED step
       ELSE IF step + 1 < n_batches
       THEN /\ step' = step + 1
            /\ pc' = "forward"
            /\ UNCHANGED batches_skipped
       ELSE /\ pc' = "epoch_end"
            /\ UNCHANGED <<step, batches_skipped>>
    /\ UNCHANGED <<setupVars, token_embeds, epoch, acc_step, sync_gradients,
                   current_epoch, current_step, outVars, events, opt_steps,
                   otherVars>>

\* train_util.save_on_epoch_end: whether this epoch's checkpoint is saved
Saving(epoch_no) ==
    /\ ~IsNone(save_policy[1])
    /\ epoch_no % Get(save_policy[1]) = 0

\* the old epoch whose checkpoint the retention policy removes, if any
RemoveEpochNo(epoch_no) ==
    IF IsNone(save_policy[2]) THEN None
    ELSE Some(epoch_no - Get(save_policy[1]) * Get(save_policy[2]))

UpdatedEmbsMutant(live) ==
    Tensor("float32", 2,
           [i \in 1..Len(token_ids) |-> live[token_ids[Len(token_ids) + 1 - i] + 1]])

\* the live rows of the new tokens: weight[token_ids]
UpdatedEmbs(live) ==
    Tensor("float32", 2, [i \in 1..Len(token_ids) |-> live[token_ids[i] + 1]])

\* lines 438-470: extract the rows, save the epoch checkpoint if due, then the
\* next epoch or the end of the loop
EpochCheckpoint ==
    /\ pc = "epoch_end"
    /\ epoch_ckpts' =
          IF Saving(epoch + 1)
          THEN (epoch_ckpts \cup {epoch + 1})
                   \ (IF IsNone(RemoveEpochNo(epoch + 1)) THEN {}
                      ELSE {Get(RemoveEpochNo(epoch + 1))})
          ELSE epoch_ckpts
    /\ epoch' = epoch + 1
    /\ IF epoch + 1 < num_train_epochs
       THEN /\ current_epoch' = EpochNumber(epoch + 1)
            /\ step' = 0
            /\ pc' = "forward"
       ELSE /\ pc' = "finalize"
            /\ UNCHANGED <<current_epoch, step>>
    /\ UNCHANGED <<setupVars, token_embeds, global_step, acc_step,
                   sync_gradients, current_step, last_ckpt, last_writes,
                   histVars, otherVars>>

SaveFormats == {<<".pt", None>>, <<".safetensors", None>>,
                <<".safetensors", Some("float16")>>}

\* lines 474-498: extract the final rows and write the "last" checkpoint
Finalize ==
    /\ pc = "finalize"
    /\ \E fmt \in SaveFormats :
          last_ckpt' = Some(SaveWeights(fmt[1], UpdatedEmbs(token_embeds), fmt[2]))
    /\ last_writes' = last_writes + 1
    /\ pc' = "done"
    /\ UNCHANGED <<setupVars, token_embeds, loopVars, epoch_ckpts, histVars,
                   otherVars>>

\* ------------------------------------------------------------ the run
\* everything train() has not touched yet
Untouched ==
    /\ error = ""
    /\ num_vectors_per_token = 0
    /\ init_token_ids = None
    /\ embeddings = None
    /\ token_ids = <<>>
    /\ orig_embeds_params = None
    /\ n_batches = 0
    /\ gradient_accumulation_steps = 1
    /\ max_train_steps = 0
    /\ max_grad_norm = 0
    /\ num_train_epochs = 0
    /\ epoch = 0
    /\ step = 0
    /\ global_step = 0
    /\ acc_step = 0
    /\ sync_gradients = FALSE
    /\ current_epoch = 0
    /\ current_step = 0
    /\ epoch_ckpts = {}
    /\ last_ckpt = None
    /\ events = <<>>
    /\ opt_steps = 0
    /\ last_writes = 0
    /\ batches_skipped = 0

Init ==
    /\ pc = "start"
    /\ tokenizer \in BaseVocabs
    /\ token_embeds = BaseEmbeds(tokenizer)
    /\ save_policy = <<None, None>>
    /\ Untouched
    /\ codec = <<>>
    /\ replicas = <<>>

Next ==
    \/ EncodeInitWord
    \/ RegisterTokens
    \/ InitRows
    \/ LoadInitWeights
    \/ PrepareDataset
    \/ TakeSnapshot
    \/ BeginTraining
    \/ Forward
    \/ Backward
    \/ ClipGradNorm
    \/ OptimizerStep
    \/ SchedulerStep
    \/ ZeroGrad
    \/ Guard
    \/ StepEnd
    \/ EpochCheckpoint
    \/ Finalize

Spec == Init /\ [][Next]_vars

\* a run that has passed lines 104-145 without an init word or a weight file:
\* the K token strings are registered on the clean vocabulary and their rows
\* are the fresh ones of the resize
InitReady ==
    /\ pc = "dataset"
    /\ \E K \in 1..MaxK :
          /\ num_vectors_per_token = K
          /\ tokenizer = AddTokens(BaseWords, TokenStrings(K))
          /\ token_ids = ConvertTokensToIds(tokenizer, TokenStrings(K))
          /\ token_embeds \in Resizings(BaseEmbeds(BaseWords), Len(tokenizer))
    /\ error = ""
    /\ init_token_ids = None
    /\ embeddings = None
    /\ orig_embeds_params = None
    /\ n_batches = 0
    /\ gradient_accumulation_steps = 1
    /\ max_train_steps = 0
    /\ max_grad_norm = 0
    /\ save_policy = <<None, None>>
    /\ num_train_epochs = 0
    /\ epoch = 0
    /\ step = 0
    /\ global_step = 0
    /\ acc_step = 0
    /\ sync_gradients = FALSE
    /\ current_epoch = 0
    /\ current_step = 0
    /\ epoch_ckpts = {}
    /\ last_ckpt = None
    /\ events = <<>>
    /\ opt_steps = 0
    /\ last_writes = 0
    /\ batches_skipped = 0
    /\ codec = <<>>
    /\ replicas = <<>>

\* lines 215-498: train() from the dataset check on
NextTrain ==
    \/ PrepareDataset
    \/ TakeSnapshot
    \/ BeginTraining
    \/ Forward
    \/ Backward
    \/ ClipGradNorm
    \/ OptimizerStep
    \/ SchedulerStep
    \/ ZeroGrad
    \/ Guard
    \/ StepEnd
    \/ EpochCheckpoint
    \/ Finalize

\* train() is sequential code: whenever it has a next statement it executes it
SpecFair == InitReady /\ [][NextTrain]_vars /\ WF_vars(NextTrain)

\* ------------------------------------------------------------ codec harness
\* save_weights and load_weights called on their own: a file is either written
\* by save_weights or comes from elsewhere, and is then read by load_weights
Exts == {".safetensors", ".pt", ".ckpt"}

SaveDtypes == {None} \cup {Some(d) : d \in Dtypes}

\* every tensor of shape [K, D] within the bounds
SavedTensors ==
    UNION {Matrices(k, d, dt) : k \in 1..MaxRows, d \in 1..MaxDim, dt \in Dtypes}

Str == [type |-> "str"]
List == [type |-> "list"]
Parameter(t) == [t EXCEPT !.type = "Parameter"]
OrderedDict(items) == [type |-> "OrderedDict", items |-> items]
ParameterDict(items) ==
    [type |-> "ParameterDict", parameters |-> OrderedDict(items)]

T1 == Tensor("float32", 1, <<1, 0>>)
T2 == Tensor("float32", 2, <<<<1, 0>>, <<0, 1>>>>)
T0 == Tensor("float32", 0, 1)
T3 == Tensor("float32", 3, <<<<<<1>>>>>>)

\* objects a weight file from elsewhere may hold
ForeignObjects ==
    {List, Str, T2, OrderedDict(<< <<"emb_params", T2>> >>),
     Dict(<<>>),
     Dict(<< <<"emb_params", Str>> >>),
     Dict(<< <<"name", Str>>, <<"emb_params", T2>> >>),
     Dict(<< <<"emb_params", Parameter(T2)>> >>),
     Dict(<< <<"emb_params", T1>> >>),
     Dict(<< <<"emb_params", T0>> >>),
     Dict(<< <<"emb_params", T3>> >>),
     Dict(<< <<"string_to_param", Dict(<<>>)>> >>),
     Dict(<< <<"string_to_param", List>> >>),
     Dict(<< <<"string_to_param", Dict(<< <<"*", Str>> >>)>> >>),
     Dict(<< <<"string_to_param", Dict(<< <<"*", T2>> >>)>> >>),
     Dict(<< <<"string_to_param", Dict(<< <<"*", T1>> >>)>> >>),
     Dict(<< <<"name", Str>>, <<"string_to_param", Dict(<< <<"*", T2>> >>)>>,
             <<"step", Str>> >>),
     Dict(<< <<"string_to_param", Dict(<< <<"*", T2>> >>)>>, <<"name", T1>> >>),
     Dict(<< <<"string_to_param", ParameterDict(<< <<"*", T2>> >>)>> >>),
     Dict(<< <<"string_to_param", ParameterDict(<< <<"*", Parameter(T2)>> >>)>> >>),
     Dict(<< <<"string_to_param", ParameterDict(<<>>)>> >>)}

ForeignContents ==
    {TorchSave(o) : o \in ForeignObjects}
    \cup {[format |-> "garbage"],
          SafetensorsSave(<<>>),
          SafetensorsSave(<< <<"emb_params", T1>> >>),
          SafetensorsSave(<< <<"a", T2>>, <<"emb_params", T1>> >>)}

InitCodec ==
    /\ pc = "codec"
    /\ tokenizer = BaseWords
    /\ token_embeds = BaseEmbeds(tokenizer)
    /\ save_policy = <<None, None>>
    /\ Untouched
    /\ codec = [pc |-> "idle", file |-> None, input |-> None, result |-> None]
    /\ replicas = <<>>

trainVars == <<pc, setupVars, token_embeds, loopVars, outVars, histVars>>

\* save_weights(file, updated_embs, save_dtype)
CodecSave ==
    /\ codec.pc = "idle"
    /\ \E ext \in Exts, t \in SavedTensors, dt \in SaveDtypes :
          codec' = [pc     |-> "saved",
                    file   |-> Some([ext |-> ext,
                                     content |-> SaveWeights(ext, t, dt)]),
                    input  |-> Some(<<t, dt>>),
                    result |-> None]
    /\ UNCHANGED <<trainVars, replicas>>

\* a file that save_weights did not write
CodecPlace ==
    /\ codec.pc = "idle"
    /\ \E ext \in Exts, c \in ForeignContents :
          codec' = [pc     |-> "placed",
                    file   |-> Some([ext |-> ext, content |-> c]),
                    input  |-> None,
                    result |-> None]
    /\ UNCHANGED <<trainVars, replicas>>

\* load_weights(file)
CodecLoad ==
    /\ codec.pc \in {"saved", "placed"}
    /\ codec' = [codec EXCEPT
                   !.pc = "loaded",
                   !.result = Some(LoadWeights(Get(codec.file).ext,
                                               Get(codec.file).content))]
    /\ UNCHANGED <<trainVars, replicas>>

NextCodec ==
    \/ CodecSave
    \/ CodecPlace
    \/ CodecLoad

SpecCodec == InitCodec /\ [][NextCodec]_vars

\* ------------------------------------------------------------ replicated run
\* Every replica runs train(); this is its projection on the steps that touch
\* the output directory. replicas.pc[p] is replica p's position, .epoch[p] its
\* epoch (from 0), .busy the file operations in progress as <<p, path, op>>,
\* .log the operations done, .files the paths that exist. The path of the
\* epoch-e checkpoint is e, that of the "last" checkpoint is 0.
Procs == 0..(replicas.n - 1)

\* accelerator.is_main_process
IsMainProcess(p) == p = 0

LastPath == 0

InitMulti ==
    /\ pc = "replicated"
    /\ tokenizer = BaseWords
    /\ token_embeds = BaseEmbeds(tokenizer)
    /\ save_policy \in SavePolicies
    /\ Untouched
    /\ codec = <<>>
    /\ \E n \in 1..MaxProcs, E \in 1..MaxEpochs :
          replicas = [n      |-> n,
                      epochs |-> E,
                      pc     |-> [p \in 0..(n - 1) |-> "train"],
                      epoch  |-> [p \in 0..(n - 1) |-> 0],
                      busy   |-> {},
                      log    |-> {},
                      files  |-> {}]

\* lines 338-441: the batch loop of one epoch
RTrainEpoch(p) ==
    /\ UNCHANGED <<trainVars, codec>>
    /\ replicas.pc[p] = "train"
    /\ replicas' = [replicas EXCEPT !.pc[p] = "barrier"]

\* line 442: accelerator.wait_for_everyone()
RBarrier ==
    /\ UNCHANGED <<trainVars, codec>>
    /\ \A p \in Procs : replicas.pc[p] = "barrier"
    /\ replicas' = [replicas EXCEPT !.pc = [p \in Procs |-> "epoch_ckpt"]]

\* lines 446-464: save_on_epoch_end decides; save_func starts to write
RSaveBegin(p) ==
    /\ UNCHANGED <<trainVars, codec>>
    /\ replicas.pc[p] = "epoch_ckpt"
    /\ IF Saving(replicas.epoch[p] + 1)
       THEN replicas' = [replicas EXCEPT
               !.pc[p] = "saving",
               !.busy = @ \cup {<<p, replicas.epoch[p] + 1, "write">>}]
       ELSE replicas' = [replicas EXCEPT !.pc[p] = "epoch_done"]

\* lines 449-455: save_func has written the file
RSaveEnd(p) ==
    /\ UNCHANGED <<trainVars, codec>>
    /\ replicas.pc[p] = "saving"
    /\ LET e == replicas.epoch[p] + 1
       IN  replicas' = [replicas EXCEPT
               !.pc[p] = IF IsNone(RemoveEpochNo(e)) THEN "epoch_done"
                         ELSE "remove_old",
               !.busy = @ \ {<<p, e, "write">>},
               !.log = @ \cup {<<p, e, "write">>},
               !.files = @ \cup {e}]

\* lines 457-462: remove_old_func finds the old checkpoint or not
RRemoveCheck(p) ==
    /\ UNCHANGED <<trainVars, codec>>
    /\ replicas.pc[p] = "remove_old"
    /\ LET old == Get(RemoveEpochNo(replicas.epoch[p] + 1))
       IN  IF old \in replicas.files
           THEN replicas' = [replicas EXCEPT
                   !.pc[p] = "removing",
                   !.busy = @ \cup {<<p, old, "remove">>}]
           ELSE replicas' = [replicas EXCEPT !.pc[p] = "epoch_done"]

\* line 462: os.remove
RRemove(p) ==
    /\ UNCHANGED <<trainVars, codec>>
    /\ replicas.pc[p] = "removing"
    /\ LET old == Get(RemoveEpochNo(replicas.epoch[p] + 1))
       IN  replicas' = [replicas EXCEPT
               !.pc[p] = IF old \in replicas.files THEN "epoch_done"
                         ELSE "error",
               !.busy = @ \ {<<p, old, "remove">>},
               !.log = @ \cup {<<p, old, "remove">>},
               !.files = @ \ {old}]

\* lines 468-472: the end of the epoch
REpochDone(p) ==
    /\ UNCHANGED <<trainVars, codec>>
    /\ replicas.pc[p] = "epoch_done"
    /\ replicas' = [replicas EXCEPT
          !.epoch[p] = @ + 1,
          !.pc[p] = IF replicas.epoch[p] + 1 < replicas.epochs THEN "train"
                    ELSE "finalize"]

\* lines 474-495: the main process starts to write the "last" checkpoint
RFinalBegin(p) ==
    /\ UNCHANGED <<trainVars, codec>>
    /\ replicas.pc[p] = "finalize"
    /\ IF IsMainProcess(p)
       THEN replicas' = [replicas EXCEPT
               !.pc[p] = "saving_last",
               !.busy = @ \cup {<<p, LastPath, "write">>}]
       ELSE replicas' = [replicas EXCEPT !.pc[p] = "done"]

\* lines 495-498
RFinalEnd(p) ==
    /\ UNCHANGED <<trainVars, codec>>
    /\ replicas.pc[p] = "saving_last"
    /\ replicas' = [replicas EXCEPT
          !.pc[p] = "done",
          !.busy = @ \ {<<p, LastPath, "write">>},
          !.log = @ \cup {<<p, LastPath, "write">>},
          !.files = @ \cup {LastPath}]

NextMulti ==
    \/ \E p \in Procs : RTrainEpoch(p)
    \/ RBarrier
    \/ \E p \in Procs : RSaveBegin(p)
    \/ \E p \in Procs : RSaveEnd(p)
    \/ \E p \in Procs : RRemoveCheck(p)
    \/ \E p \in Procs : RRemove(p)
    \/ \E p \in Procs : REpochDone(p)
    \/ \E p \in Procs : RFinalBegin(p)
    \/ \E p \in Procs : RFinalEnd(p)

SpecMulti == InitMulti /\ [][NextMulti]_vars

\* ------------------------------------------------------------ claims
BaseId == token_ids[1]

\* the row of the live matrix for a token id
Row(m, id) == m[id + 1]

InLoop == pc \in {"forward", "backward", "clip", "optimizer", "scheduler",
                  "zero_grad", "guard", "step_end", "epoch_end", "finalize",
                  "done"}

C2_ConflictLeavesVocabularyUnchanged ==
    [][(/\ pc = "register"
        /\ \E i \in 1..num_vectors_per_token' :
              InVocab(tokenizer, TokenStrings(num_vectors_per_token')[i]))
       => (/\ pc' = "error"
           /\ error' = "AssertionError: token string exists"
           /\ Len(tokenizer') = Len(tokenizer))]_vars

\* C3: on a vocabulary of size V that holds none of the K token strings the
\* registration succeeds, the i-th string gets id V+i, and the resized matrix
\* has V+K rows.
C3_NewIdsAreContiguousBlock ==
    [][(/\ pc = "register"
        /\ \A i \in 1..num_vectors_per_token' :
              ~InVocab(tokenizer, TokenStrings(num_vectors_per_token')[i]))
       => (/\ pc' = "init_rows"
           /\ error' = ""
           /\ token_ids' = [i \in 1..num_vectors_per_token' |->
                               Len(tokenizer) + i - 1]
           /\ \A i \in 1..num_vectors_per_token' :
                 tokenizer'[token_ids'[i] + 1] =
                     TokenStrings(num_vectors_per_token')[i]
           /\ Len(tokenizer') = Len(tokenizer) + num_vectors_per_token'
           /\ Len(token_embeds') = Len(tokenizer) + num_vectors_per_token')]_vars

\* C3 witness: two strings registered on the two-word vocabulary
C3_Witness ==
    /\ pc = "init_rows"
    /\ num_vectors_per_token = 2
    /\ token_ids = <<2, 3>>
    /\ Len(token_embeds) = 4

\* C4: training applies exactly max_train_steps parameter updates: no batch is
\* processed once the global step counter has reached max_train_steps, the
\* loop ends with exactly that many updates, and the "last" checkpoint is then
\* written exactly once.
C4_ExactlyMaxTrainSteps ==
    InLoop =>
        /\ opt_steps <= max_train_steps
        /\ pc \in {"forward", "epoch_end", "finalize", "done"}
              => global_step = opt_steps
        /\ pc \in {"forward", "backward", "clip", "optimizer"}
              => global_step < max_train_steps
        /\ pc \in {"finalize", "done"}
              => opt_steps = max_train_steps /\ epoch = num_train_epochs
        /\ last_writes = (IF pc = "done" THEN 1 ELSE 0)

\* C4 witness: the run ended by the break, with batches of the epoch left over
C4_Witness ==
    /\ pc = "done"
    /\ max_train_steps = 3
    /\ opt_steps = 3
    /\ batches_skipped > 0
    /\ last_writes = 1

\* the calls of a micro-step in the order the claim gives
C6_Order ==
    <<"forward", "backward">>
    \o (IF sync_gradients /\ max_grad_norm # 0 THEN <<"clip">> ELSE <<>>)
    \o <<"optimizer", "scheduler", "zero_grad", "guard">>

C6_IsPrefix(s, t) == Len(s) <= Len(t) /\ s = SubSeq(t, 1, Len(s))

\* C6: in a micro-step the calls come in the order backward, gradient clipping
\* (only with synchronised gradients and max_grad_norm not 0), optimizer step,
\* scheduler step, gradient zeroing, Guard restore; the restore is done before
\* the next forward pass begins and before checkpoint rows are extracted.
C6_StepOrder ==
    /\ pc \in {"backward", "clip", "optimizer", "scheduler", "zero_grad", "guard"}
          => C6_IsPrefix(events, C6_Order) /\ events[Len(events)] # "guard"
    /\ pc = "optimizer" => Len(events) = Len(C6_Order) - 4
    /\ pc \in {"step_end", "epoch_end"} => events = C6_Order
    /\ pc \in {"finalize", "done"} =>
          events = (IF max_train_steps = 0 THEN <<>> ELSE C6_Order)
    /\ pc = "forward" /\ events # <<>> => events[Len(events)] = "guard"

\* C6 witness: a true optimization step with clipping has run to its end
C6_Witness ==
    /\ pc = "step_end"
    /\ sync_gradients
    /\ max_grad_norm # 0
    /\ opt_steps = 2
    /\ events = <<"forward", "backward", "clip", "optimizer", "scheduler",
                  "zero_grad", "guard">>

\* the row of the pretrained model for a token id
C7_BaseRow(id) == Row(BaseEmbeds(tokenizer), id)

\* the matrix as it is at training start
C7_AtStart ==
    IF IsNone(orig_embeds_params) THEN token_embeds ELSE Get(orig_embeds_params)

\* C7: with an init word of M >= 1 ids and no weight file, new row base_id+i is
\* at training start the pretrained row of initializer id number (i mod M), and
\* the rows of the pretrained vocabulary are unchanged.
C7_InitWordRowsCyclic ==
    (/\ pc \notin {"start", "register", "init_rows", "load_weights", "error"}
     /\ ~IsNone(init_token_ids)
     /\ IsNone(embeddings))
    => LET ids == Get(init_token_ids)
           M == Len(ids)
       IN  /\ M >= 1
           /\ \A i \in 0..(num_vectors_per_token - 1) :
                 Row(C7_AtStart, BaseId + i) = C7_BaseRow(ids[(i % M) + 1])
           /\ \A id \in 0..(BaseId - 1) :
                 Row(C7_AtStart, id) = C7_BaseRow(id)

\* C7 witness: training has begun from a snapshot in which two new rows share
\* the row of the one initializer id
C7_Witness ==
    /\ ~IsNone(orig_embeds_params)
    /\ IsNone(embeddings)
    /\ init_token_ids = Some(<<1>>)
    /\ num_vectors_per_token = 2
    /\ Row(Get(orig_embeds_params), BaseId) = <<1>>
    /\ Row(Get(orig_embeds_params), BaseId + 1) = <<1>>
    /\ opt_steps >= 1

\* C8: with a weight file whose tensor has K rows, new row base_id+i is loaded
\* row i at training start and no row below base_id has changed; with another
\* row count the run fails and no training step is made.
C8_WeightRowsCopied ==
    ~IsNone(embeddings) =>
        LET emb == Get(embeddings)
        IN  IF Len(emb.data) = num_vectors_per_token
            THEN /\ pc # "error"
                 /\ \A i \in 0..(num_vectors_per_token - 1) :
                       Row(C7_AtStart, BaseId + i) = emb.data[i + 1]
                 /\ \A id \in 0..(BaseId - 1) :
                       Row(C7_AtStart, id) = C7_BaseRow(id)
            ELSE /\ pc = "error"
                 /\ error = "AssertionError: num_vectors_per_token"
                 /\ opt_steps = 0
                 /\ global_step = 0
                 /\ events = <<>>
                 /\ IsNone(orig_embeds_params)

\* C8 witness: the snapshot of a run whose two new rows came from a weight
\* file, over an init word that had set them differently
C8_Witness ==
    /\ ~IsNone(orig_embeds_params)
    /\ ~IsNone(embeddings)
    /\ init_token_ids = Some(<<1>>)
    /\ num_vectors_per_token = 2
    /\ Row(Get(orig_embeds_params), BaseId) = <<1>>
    /\ Row(Get(orig_embeds_params), BaseId + 1) = <<0>>
    /\ opt_steps >= 1

\* C9: load_weights on the file save_weights wrote returns the tensor that was
\* saved, cast to the save dtype if one was given: same shape, same elements.
C9_RoundTrip ==
    (codec.pc = "loaded" /\ ~IsNone(codec.input)) =>
        LET t == Get(codec.input)[1]
            dt == Get(codec.input)[2]
            r == Get(codec.result)
        IN  /\ r.kind = "return"
            /\ Get(r.value).type = "Tensor"
            /\ Get(r.value).rank = 2
            /\ ShapeOf(2, Get(r.value).data) = ShapeOf(2, t.data)
            /\ Get(r.value).dtype = (IF IsNone(dt) THEN t.dtype ELSE Get(dt))
            /\ \A i \in 1..Len(t.data) : \A j \in 1..Len(t.data[i]) :
                  Get(r.value).data[i][j] =
                      (IF IsNone(dt) THEN t.data[i][j]
                       ELSE CastVal(t.data[i][j], Get(dt)))

\* C9 witness: a 2 x 2 tensor with an element float16 cannot hold, saved as
\* float16 to a .safetensors file and loaded again
C9_Witness ==
    /\ codec.pc = "loaded"
    /\ ~IsNone(codec.input)
    /\ Get(codec.file).ext = ".safetensors"
    /\ Get(codec.input)[1] = Tensor("float32", 2, <<<<1, 0>>, <<0, 1>>>>)
    /\ Get(codec.input)[2] = Some("float16")
    /\ Get(Get(codec.result).value).data = <<<<0, 0>>, <<0, 0>>>>

C10_IsMapping(o) == o.type \in {"dict", "OrderedDict"}

C10_IsTensor(o) == o.type \in {"Tensor", "Parameter"}

\* the file is one its extension's reader parses: an archive under
\* .safetensors, a pickle under any other extension
C10_Parses(file) ==
    IF IsSafetensors(file.ext) THEN file.content.format = "safetensors"
    ELSE file.content.format = "pickle"

\* the mapping whose first value load_weights is to take, if there is one
C10_Mapping(content) ==
    IF content.format = "safetensors" THEN Some(SafetensorsLoad(content))
    ELSE IF ~C10_IsMapping(content.obj) THEN None
    ELSE IF ~HasKey(content.obj, "string_to_param") THEN Some(content.obj)
    ELSE LET inner == Lookup(content.obj, "string_to_param")
         IN  IF inner.type = "ParameterDict" THEN Some(inner.parameters)
             ELSE IF C10_IsMapping(inner) THEN Some(inner)
             ELSE None

\* a parsed payload that is no mapping, or a mapping (empty included) whose
\* first value is no tensor
C10_Malformed(file) ==
    /\ C10_Parses(file)
    /\ \/ IsNone(C10_Mapping(file.content))
       \/ Len(Get(C10_Mapping(file.content)).items) = 0
       \/ ~C10_IsTensor(Get(C10_Mapping(file.content)).items[1][2])

\* C10: load_weights on a malformed file ends in the invalid-weight-file error
\* (the ValueError of load_weights), never in a value or another error.
C10_MalformedRaisesValueError ==
    (codec.pc = "loaded" /\ C10_Malformed(Get(codec.file))) =>
        Get(codec.result) = Raise("ValueError")

\* C5: in a replicated run every checkpoint write is made by the main process,
\* and no two replicas write, or write and remove, the same path at a time.
C5_OnlyMainProcessWrites ==
    /\ \A w \in replicas.busy \cup replicas.log :
          w[3] = "write" => IsMainProcess(w[1])
    /\ \A a \in replicas.busy : \A b \in replicas.busy :
          (a[1] # b[1] /\ a[2] = b[2]) => (a[3] = "remove" /\ b[3] = "remove")

\* a pickle file in the legacy format: a dict with a string_to_param entry that
\* is a mapping (a dict, or a ParameterDict as the textual inversion code
\* writes it) holding exactly one tensor, of rank 2
C11_Legacy(file) ==
    /\ ~IsSafetensors(file.ext)
    /\ file.content.format = "pickle"
    /\ file.content.obj.type = "dict"
    /\ HasKey(file.content.obj, "string_to_param")
    /\ ~IsNone(C10_Mapping(file.content))
    /\ Len(Get(C10_Mapping(file.content)).items) = 1
    /\ C10_IsTensor(Get(C10_Mapping(file.content)).items[1][2])
    /\ Get(C10_Mapping(file.content)).items[1][2].rank = 2

\* C11: load_weights on a legacy-format file whose string_to_param entry holds
\* one tensor of shape [K, D] returns that tensor unchanged, whatever other
\* keys the outer mapping has and in whatever order.
C11_LegacyReturnsTensorUnchanged ==
    (codec.pc = "loaded" /\ C11_Legacy(Get(codec.file))) =>
        Get(codec.result) =
            Return(Get(C10_Mapping(Get(codec.file).content)).items[1][2])

\* the first value of the mapping load_weights reads, when it is a tensor
C12_Stored(file) ==
    /\ C10_Parses(file)
    /\ ~IsNone(C10_Mapping(file.content))
    /\ Len(Get(C10_Mapping(file.content)).items) > 0
    /\ Get(C10_Mapping(file.content)).items[1][2].type = "Tensor"

\* C12: whatever load_weights returns is a rank-2 tensor: a stored rank-1
\* tensor of length D comes back as shape [1, D] with the same elements, a
\* stored rank-2 tensor with its shape unchanged.
C12_AlwaysRank2 ==
    (codec.pc = "loaded" /\ Get(codec.result).kind = "return") =>
        LET r == Get(Get(codec.result).value)
        IN  /\ r.rank = 2
            /\ C12_Stored(Get(codec.file)) =>
                  LET emb == Get(C10_Mapping(Get(codec.file).content)).items[1][2]
                  IN  /\ emb.rank = 1 =>
                            /\ ShapeOf(2, r.data) = <<1, Len(emb.data)>>
                            /\ r.data[1] = emb.data
                      /\ emb.rank = 2 => r = emb

\* the tensor load_weights reads back from the "last" checkpoint file
C13_Persisted ==
    LET content == Get(last_ckpt)
        ext == IF content.format = "safetensors" THEN ".safetensors" ELSE ".pt"
    IN  LoadWeights(ext, content)

C14_NothingDone ==
    /\ opt_steps = 0
    /\ global_step = 0
    /\ events = <<>>
    /\ IsNone(orig_embeds_params)
    /\ epoch_ckpts = {}
    /\ IsNone(last_ckpt)
    /\ last_writes = 0

\* the step that meets a conflicting token string fails
C14_ConflictFails ==
    (/\ pc = "register"
     /\ \E i \in 1..num_vectors_per_token' :
           InVocab(tokenizer, TokenStrings(num_vectors_per_token')[i]))
    => (pc' = "error" /\ error' = "AssertionError: token string exists")

\* the step that loads a weight file whose row count is not K fails
C14_MismatchFails ==
    (/\ pc = "load_weights"
     /\ ~IsNone(embeddings')
     /\ Len(Get(embeddings').data) # num_vectors_per_token)
    => (pc' = "error" /\ error' = "AssertionError: num_vectors_per_token")

\* the step that finds no data ends the run
C14_NoDataEnds ==
    (pc = "dataset" /\ n_batches' = 0) => (pc' = "returned")

\* C14: a conflicting token string, a dataset with no data and a weight file
\* whose row count is not K each end the run in the step that meets them; a
\* run so ended has made no optimization step and written no checkpoint, and
\* it takes no further step, so it never comes to the normal end.
C14_ConfigErrorsAreFatal ==
    /\ [][C14_ConflictFails /\ C14_MismatchFails /\ C14_NoDataEnds]_vars
    /\ [](pc \in {"error", "returned"} => C14_NothingDone)
    /\ [](error # "" => pc = "error")
    /\ [][(pc \in {"error", "returned"}) => (vars' = vars)]_vars

\* C14 witness: the run ended on a weight file of three rows for two tokens
C14_Witness ==
    /\ pc = "error"
    /\ error = "AssertionError: num_vectors_per_token"
    /\ num_vectors_per_token = 2
    /\ Len(Get(embeddings).data) = 3
    /\ C14_NothingDone

\* the micro-step of batch number step (from 0) ends an accumulation window
\* of G micro-steps, or is the last batch of the epoch
C15_WindowEnd ==
    \/ (step + 1) % gradient_accumulation_steps = 0
    \/ step = n_batches - 1

C15_InMicroStep ==
    pc \in {"backward", "clip", "optimizer", "scheduler", "zero_grad", "guard",
            "step_end"}

\* what one step may do to the two counters
C15_Counts ==
    /\ opt_steps' =
          IF pc = "optimizer" /\ C15_WindowEnd THEN opt_steps + 1 ELSE opt_steps
    /\ global_step' =
          IF pc = "step_end" /\ C15_WindowEnd THEN global_step + 1
          ELSE global_step

\* C15: a parameter update is applied only on the micro-step that ends a
\* window of G micro-steps or is the last batch of the epoch; the global step
\* counter goes up by exactly 1 on exactly those micro-steps and is unchanged
\* on the others; between micro-steps it equals the number of updates applied.
C15_UpdateOnlyAtWindowEnd ==
    /\ [][C15_Counts]_vars
    /\ [](C15_InMicroStep => (sync_gradients <=> C15_WindowEnd))
    /\ [](~C15_InMicroStep => global_step = opt_steps)
    /\ [](C15_InMicroStep => opt_steps - global_step \in {0, 1})

\* C15 witness: with windows of two micro-steps, the first micro-step of the
\* second epoch has ended without an update and without a count
C15_Witness ==
    /\ pc = "step_end"
    /\ gradient_accumulation_steps = 2
    /\ n_batches = 2
    /\ epoch = 1
    /\ step = 0
    /\ ~sync_gradients
    /\ opt_steps = 1
    /\ global_step = 1

\* the positions of train() before the snapshot is taken
C16_BeforeSnapshot ==
    pc \in {"start", "register", "init_rows", "load_weights", "dataset",
            "snapshot"}

\* the one step that sets the snapshot: it copies the live matrix, which has
\* its new rows initialized and has had no training step
C16_Capture ==
    /\ pc = "snapshot"
    /\ IsNone(orig_embeds_params)
    /\ orig_embeds_params' = Some(token_embeds)
    /\ token_embeds' = token_embeds
    /\ Len(token_ids) = num_vectors_per_token
    /\ num_vectors_per_token >= 1
    /\ opt_steps = 0
    /\ events = <<>>

\* C16: the snapshot is created once, after token registration and row
\* initialization and before the first training step, as a copy of the live
\* matrix of that moment, and no later step (optimizer step, Guard restore,
\* resume, checkpoint save) changes it.
C16_SnapshotImmutable ==
    /\ [][(orig_embeds_params' # orig_embeds_params) => C16_Capture]_vars
    /\ [][(pc = "snapshot") => C16_Capture]_vars
    /\ [](C16_BeforeSnapshot => IsNone(orig_embeds_params))
    /\ [](InLoop => ~IsNone(orig_embeds_params))

\* C16 witness: the run has ended after a resume and optimizer steps that left
\* a new row different from its snapshot row
C16_Witness ==
    /\ pc = "done"
    /\ opt_steps >= 2
    /\ ~IsNone(orig_embeds_params)
    /\ Row(Get(orig_embeds_params), BaseId) # Row(token_embeds, BaseId)
    /\ ~IsNone(last_ckpt)

\* C18: the Guard restore writes only rows with index < base_id; every
\* trainable row base_id..base_id+K-1 keeps the value the optimizer step left,
\* and is not set back to its snapshot value.
C18_GuardKeepsTrainableRows ==
    [][(pc = "guard") =>
          (/\ pc' = "step_end"
           /\ Len(token_embeds') = Len(token_embeds)
           /\ Len(token_embeds) = BaseId + num_vectors_per_token
           /\ \A id \in BaseId..(Len(token_embeds) - 1) :
                 Row(token_embeds', id) = Row(token_embeds, id))]_vars

\* C18 witness: a restore has run after an update that moved both new rows
\* away from their snapshot values, and both still have the moved values
C18_Witness ==
    /\ pc = "step_end"
    /\ sync_gradients
    /\ num_vectors_per_token = 2
    /\ Len(token_embeds) = BaseId + 2
    /\ \A id \in BaseId..(BaseId + 1) :
          Row(token_embeds, id) # Row(Get(orig_embeds_params), id)

\* the state of the training state machine a position of train() belongs to
C19_Phase(p) ==
    IF p \in {"forward", "backward", "clip", "optimizer", "scheduler",
              "zero_grad", "guard", "step_end"} THEN "TrainEpoch"
    ELSE IF p = "epoch_end" THEN "EpochCheckpoint"
    ELSE IF p = "finalize" THEN "Finalize"
    ELSE IF p = "done" THEN "Terminal"
    ELSE IF p \in {"error", "returned"} THEN "Failed"
    ELSE "Init"

\* Init -> (per epoch: TrainEpoch -> EpochCheckpoint) -> Finalize -> Terminal
C19_PhaseSteps ==
    {<<"Init", "Init">>, <<"Init", "Failed">>, <<"Init", "TrainEpoch">>,
     <<"Init", "Finalize">>, <<"TrainEpoch", "TrainEpoch">>,
     <<"TrainEpoch", "EpochCheckpoint">>, <<"EpochCheckpoint", "TrainEpoch">>,
     <<"EpochCheckpoint", "Finalize">>, <<"Finalize", "Terminal">>}

C19_PhaseStep == (<<C19_Phase(pc), C19_Phase(pc')>>) \in C19_PhaseSteps

\* C19: a run that has passed initialization with its batches per epoch and
\* max_train_steps always reaches Terminal, through TrainEpoch and
\* EpochCheckpoint for each epoch and then Finalize; the epoch counter never
\* exceeds ceil(max_train_steps / ceil(batches / accumulation steps)) and the
\* global step counter never exceeds max_train_steps.
C19_Terminates ==
    /\ (pc = "snapshot") ~> (pc = "done")
    /\ [][C19_PhaseStep]_vars
    /\ [](InLoop =>
            /\ epoch <= CeilDiv(max_train_steps,
                                CeilDiv(n_batches, gradient_accumulation_steps))
            /\ global_step <= max_train_steps)

\* C19 witness: a run of two epochs has reached Terminal, stopped in its second
\* epoch by the step count
C19_Witness ==
    /\ pc = "done"
    /\ n_batches = 2
    /\ gradient_accumulation_steps = 1
    /\ max_train_steps = 3
    /\ epoch = 2
    /\ global_step = 3
    /\ batches_skipped = 1

\* new row base_id+i of matrix m is loaded row i, whatever the initializer
\* row (i mod M) is
C20_RowsAreLoaded(m) ==
    LET ids == Get(init_token_ids)
        emb == Get(embeddings)
    IN  \A i \in 0..(num_vectors_per_token - 1) :
           /\ Row(m, BaseId + i) = emb.data[i + 1]
           /\ emb.data[i + 1] # C7_BaseRow(ids[(i % Len(ids)) + 1])
                 => Row(m, BaseId + i) # C7_BaseRow(ids[(i % Len(ids)) + 1])

\* C20: with both an init word and a weight file the weight file wins: at
\* training start every new row base_id+i is loaded row i, not the
\* initializer row (i mod M).
C20_WeightFileWins ==
    (/\ ~IsNone(init_token_ids)
     /\ ~IsNone(embeddings)
     /\ pc # "error")
    => /\ Len(Get(init_token_ids)) >= 1
       /\ Len(Get(embeddings).data) = num_vectors_per_token
       /\ pc \in {"dataset", "snapshot"} => C20_RowsAreLoaded(token_embeds)
       /\ ~IsNone(orig_embeds_params)
             => C20_RowsAreLoaded(Get(orig_embeds_params))

\* C20 witness: training is about to start with an init word of two ids, whose
\* second row is <<0>>, and a weight file whose second row is <<1>>
C20_Witness ==
    /\ pc = "snapshot"
    /\ init_token_ids = Some(<<1, 0>>)
    /\ num_vectors_per_token = 2
    /\ ~IsNone(embeddings)
    /\ Get(embeddings).data = <<<<1>>, <<1>>>>
    /\ Row(token_embeds, BaseId + 1) = <<1>>
    /\ C7_BaseRow(0) = <<0>>

\* a batch is being processed
C21_InBatch ==
    pc \in {"backward", "clip", "optimizer", "scheduler", "zero_grad", "guard",
            "step_end"}

\* the writes of the two shared counters: current_epoch only where an epoch
\* starts, to the number of that epoch counted from 1, current_step only where
\* a batch starts, to the global step counter; neither counter decreases
C21_Writes ==
    /\ (current_epoch' # current_epoch) =>
          (/\ pc \in {"resume", "epoch_end"}
           /\ pc' = "forward"
           /\ current_epoch' = epoch' + 1)
    /\ (pc \in {"resume", "epoch_end"} /\ pc' = "forward") =>
          (current_epoch' = epoch' + 1)
    /\ (current_step' # current_step) => (pc = "forward")
    /\ (pc = "forward") => (current_step' = global_step)
    /\ current_epoch' >= current_epoch
    /\ current_step' >= current_step

\* C21: the training loop is the one writer of the shared counters:
\* current_epoch is set to e where the e-th epoch starts and current_step to
\* the global step counter before each batch, so every value a reader can see
\* has 0 <= current_step <= max_train_steps and 0 <= current_epoch <= number
\* of epochs, and neither counter ever decreases.
C21_SharedCounters ==
    /\ [][C21_Writes]_vars
    /\ [](/\ 0 <= current_step
           /\ current_step <= max_train_steps
           /\ 0 <= current_epoch
           /\ current_epoch <= num_train_epochs)
    /\ [](C21_InBatch =>
            (current_epoch = epoch + 1 /\ current_step = global_step))

\* C21 witness: a batch of the second epoch is being processed after two
\* global steps, and the counters read 2 and 2
C21_Witness ==
    /\ pc = "backward"
    /\ max_train_steps = 3
    /\ num_train_epochs = 2
    /\ epoch = 1
    /\ global_step = 2
    /\ current_epoch = 2
    /\ current_step = 2

====
